---- MODULE Spec2Model ----
(***************************************************************************)
(* Model of the vault layer of obsidian-agent (src/src/vault.py) and of    *)
(* the tool layer that calls it (src/src/agent.py).                        *)
(*                                                                         *)
(* A Python str is a sequence of one-character strings, so that the        *)
(* string operations and regular expressions of the code are computed      *)
(* character by character.  The bytes of a file on disk are such a         *)
(* sequence too, in which BadByte stands for a byte sequence that is not   *)
(* valid UTF-8.  A path is a sequence of names (its segments below the     *)
(* vault root); a name is a str.  fs holds the files and directories below *)
(* the vault root, outside those a path with a ".." segment or an absolute *)
(* path reaches; agent holds the fields of a VaultAgent and the position   *)
(* of its chat call.                                                       *)
(*                                                                         *)
(* Environment: a POSIX filesystem (os.linesep is "\n") in which every     *)
(* directory of the vault can be listed and searched; the faults modelled  *)
(* are a file that cannot be opened for reading, a file that cannot be     *)
(* opened for writing, bytes that do not decode, a str that does not       *)
(* encode, and a path whose parent is a regular file.                      *)
(*                                                                         *)
(* Spec runs every operation of VaultManager on three vaults, with at most *)
(* MaxWrites calls of write_file; SpecExtract runs list_tags and           *)
(* list_yaml_keys on every one-note vault whose content is a frontmatter   *)
(* block followed by at most MaxBody body parts; SpecAgent runs chat and   *)
(* reset_conversation of one VaultAgent, the model answering each of at    *)
(* most MaxCalls calls with a text, a list of tool calls or an error.      *)
(***************************************************************************)
EXTENDS Integers, Sequences, FiniteSets, TLC

VARIABLES fs, outside, op, arg, ret, nwrites, agent

vars == <<fs, outside, op, arg, ret, nwrites, agent>>

----------------------------------------------------------------------------
(* Characters and their code points.                                       *)

\* The backtick (U+0060), which a TLA+ string literal cannot hold.
Backtick == "U+0060"

Ascii ==
    <<" ", "!", "\"", "#", "$", "%", "&", "'", "(", ")", "*", "+", ",", "-",
      ".", "/", "0", "1", "2", "3", "4", "5", "6", "7", "8", "9", ":", ";",
      "<", "=", ">", "?", "@", "A", "B", "C", "D", "E", "F", "G", "H", "I",
      "J", "K", "L", "M", "N", "O", "P", "Q", "R", "S", "T", "U", "V", "W",
      "X", "Y", "Z", "[", "\\", "]", "^", "_", Backtick, "a", "b", "c", "d", "e",
      "f", "g", "h", "i", "j", "k", "l", "m", "n", "o", "p", "q", "r", "s",
      "t", "u", "v", "w", "x", "y", "z", "{", "|", "}", "~">>

\* A lone surrogate code point (U+D800): a character of a str that UTF-8
\* cannot encode.
Surrogate == "U+D800"

\* A byte sequence on disk that is not valid UTF-8.
BadByte == "0xFF"

\* ord(c): the code point of a character.
Ord ==
       ("\t" :> 9) @@ ("\n" :> 10) @@ ("\r" :> 13) @@ (" " :> 32)
    @@ ("!" :> 33) @@ ("\"" :> 34) @@ ("#" :> 35) @@ ("$" :> 36)
    @@ ("%" :> 37) @@ ("&" :> 38) @@ ("'" :> 39) @@ ("(" :> 40)
    @@ (")" :> 41) @@ ("*" :> 42) @@ ("+" :> 43) @@ ("," :> 44)
    @@ ("-" :> 45) @@ ("." :> 46) @@ ("/" :> 47) @@ ("0" :> 48)
    @@ ("1" :> 49) @@ ("2" :> 50) @@ ("3" :> 51) @@ ("4" :> 52)
    @@ ("5" :> 53) @@ ("6" :> 54) @@ ("7" :> 55) @@ ("8" :> 56)
    @@ ("9" :> 57) @@ (":" :> 58) @@ (";" :> 59) @@ ("<" :> 60)
    @@ ("=" :> 61) @@ (">" :> 62) @@ ("?" :> 63) @@ ("@" :> 64)
    @@ ("A" :> 65) @@ ("B" :> 66) @@ ("C" :> 67) @@ ("D" :> 68)
    @@ ("E" :> 69) @@ ("F" :> 70) @@ ("G" :> 71) @@ ("H" :> 72)
    @@ ("I" :> 73) @@ ("J" :> 74) @@ ("K" :> 75) @@ ("L" :> 76)
    @@ ("M" :> 77) @@ ("N" :> 78) @@ ("O" :> 79) @@ ("P" :> 80)
    @@ ("Q" :> 81) @@ ("R" :> 82) @@ ("S" :> 83) @@ ("T" :> 84)
    @@ ("U" :> 85) @@ ("V" :> 86) @@ ("W" :> 87) @@ ("X" :> 88)
    @@ ("Y" :> 89) @@ ("Z" :> 90) @@ ("[" :> 91) @@ ("\\" :> 92)
    @@ ("]" :> 93) @@ ("^" :> 94) @@ ("_" :> 95) @@ (Backtick :> 96)
    @@ ("a" :> 97) @@ ("b" :> 98) @@ ("c" :> 99) @@ ("d" :> 100)
    @@ ("e" :> 101) @@ ("f" :> 102) @@ ("g" :> 103) @@ ("h" :> 104)
    @@ ("i" :> 105) @@ ("j" :> 106) @@ ("k" :> 107) @@ ("l" :> 108)
    @@ ("m" :> 109) @@ ("n" :> 110) @@ ("o" :> 111) @@ ("p" :> 112)
    @@ ("q" :> 113) @@ ("r" :> 114) @@ ("s" :> 115) @@ ("t" :> 116)
    @@ ("u" :> 117) @@ ("v" :> 118) @@ ("w" :> 119) @@ ("x" :> 120)
    @@ ("y" :> 121) @@ ("z" :> 122) @@ ("{" :> 123) @@ ("|" :> 124)
    @@ ("}" :> 125) @@ ("~" :> 126) @@ (Surrogate :> 55296)

IsUpper(c) == Ord[c] >= 65 /\ Ord[c] <= 90

IsLetter(c) == IsUpper(c) \/ (Ord[c] >= 97 /\ Ord[c] <= 122)

IsDigit(c) == Ord[c] >= 48 /\ Ord[c] <= 57

\* str.isspace of one character, and the complement of the regex class \S.
IsSpace(c) == c \in {" ", "\t", "\n", "\r"}

LowerChar(c) == IF IsUpper(c) THEN Ascii[Ord[c] + 32 - 31] ELSE c

\* str.lower()
Lower(s) == [i \in 1..Len(s) |-> LowerChar(s[i])]

\* s[i:j] of Python written with 1-based inclusive bounds; empty when i > j.
Slice(s, i, j) == IF i > j THEN <<>> ELSE SubSeq(s, i, j)

\* s[i:].startswith(p) for the 1-based position i.
MatchAt(s, i, p) ==
    /\ i >= 1
    /\ i + Len(p) - 1 <= Len(s)
    /\ \A k \in 1..Len(p) : s[i + k - 1] = p[k]

StartsWith(s, p) == MatchAt(s, 1, p)

\* needle in hay
Contains(hay, needle) == \E i \in 1..(Len(hay) + 1) : MatchAt(hay, i, needle)

\* The first position >= i at which p occurs in s, or 0.
RECURSIVE FindFrom(_, _, _)
FindFrom(s, i, p) ==
    IF i + Len(p) - 1 > Len(s) THEN 0
    ELSE IF MatchAt(s, i, p) THEN i
    ELSE FindFrom(s, i + 1, p)

\* str.strip(chars): the characters of the set cs removed from both ends.
RECURSIVE LStripPos(_, _, _)
LStripPos(s, i, cs) ==
    IF i <= Len(s) /\ s[i] \in cs THEN LStripPos(s, i + 1, cs) ELSE i

RECURSIVE RStripPos(_, _, _)
RStripPos(s, j, cs) ==
    IF j >= 1 /\ s[j] \in cs THEN RStripPos(s, j - 1, cs) ELSE j

StripChars(s, cs) == Slice(s, LStripPos(s, 1, cs), RStripPos(s, Len(s), cs))

\* str.strip()
Strip(s) == StripChars(s, {" ", "\t", "\n", "\r"})

\* str.split(sep) for a one-character separator: always at least one piece.
RECURSIVE SplitFrom(_, _, _, _)
SplitFrom(s, start, i, sep) ==
    IF i > Len(s) THEN <<Slice(s, start, Len(s))>>
    ELSE IF s[i] = sep
         THEN <<Slice(s, start, i - 1)>> \o SplitFrom(s, i + 1, i + 1, sep)
         ELSE SplitFrom(s, start, i + 1, sep)

Split(s, sep) == SplitFrom(s, 1, 1, sep)

\* sep.join(parts)
RECURSIVE Join(_, _)
Join(parts, sep) ==
    IF Len(parts) = 0 THEN <<>>
    ELSE IF Len(parts) = 1 THEN parts[1]
    ELSE parts[1] \o sep \o Join(Tail(parts), sep)

\* a < b for two str: the comparison by code points of Python.
RECURSIVE StrLessFrom(_, _, _)
StrLessFrom(a, b, i) ==
    IF i > Len(b) THEN FALSE
    ELSE IF i > Len(a) THEN TRUE
    ELSE IF a[i] = b[i] THEN StrLessFrom(a, b, i + 1)
    ELSE Ord[a[i]] < Ord[b[i]]

StrLess(a, b) == StrLessFrom(a, b, 1)

\* The elements of a sequence as a set.
Range(s) == {s[i] : i \in 1..Len(s)}

\* sorted(items, key=...): the stable sort of a sequence by the keys of its
\* items, keys[i] being the key of items[i], computed once, and less[i][j]
\* being keys[i] < keys[j].  An item's place is the number of items that sort
\* before it: those with a smaller key, and those with an equal key that come
\* earlier.  (The places are concatenated with <<>> so that they are computed
\* once, as a tuple.)
Sorted(items, less) ==
    LET n == Len(items)
        place == [i \in 1..n |->
                     Cardinality({j \in 1..n :
                         \/ less[j][i]
                         \/ (j < i /\ ~less[i][j])}) + 1] \o <<>>
    IN  [r \in 1..n |-> items[CHOOSE i \in 1..n : place[i] = r]]

\* keys[i] < keys[j] for keys that are str.
StrKeysLess(keys) ==
    [i \in 1..Len(keys) |-> [j \in 1..Len(keys) |-> StrLess(keys[i], keys[j])]]

----------------------------------------------------------------------------
(* Paths.                                                                  *)

Slash == <<"/">>

\* vault_path / relative_path, as the segments below the vault root: empty
\* segments and "." segments are dropped by pathlib, ".." segments are kept,
\* and an absolute relative_path replaces the vault root: its path starts
\* with the segment "/", the root of the filesystem.
PathOf(rel) ==
    LET segs == SelectSeq(Split(rel, "/"), LAMBDA seg : seg # <<>> /\ seg # <<".">>)
    IN  IF StartsWith(rel, Slash) THEN <<Slash>> \o segs ELSE segs

\* The path lies below the vault root: it does not start at the root of the
\* filesystem and does not climb out with "..".  (For paths whose ".."
\* segments all stand in front.)
InVault(path) == path = <<>> \/ path[1] \notin {Slash, <<".", ".">>}

\* str(path.relative_to(vault_path))
RelativeStr(path) == Join(path, Slash)

Parent(path) == SubSeq(path, 1, Len(path) - 1)

BaseName(path) == path[Len(path)]

\* The last position of ch in s, or 0.
RECURSIVE RFind(_, _, _)
RFind(s, i, ch) == IF i < 1 THEN 0 ELSE IF s[i] = ch THEN i ELSE RFind(s, i - 1, ch)

\* PurePath.suffix of a name: from its last dot, unless that dot leads or
\* ends the name.
Suffix(name) ==
    LET d == RFind(name, Len(name), ".")
    IN  IF d > 1 /\ d < Len(name) THEN SubSeq(name, d, Len(name)) ELSE <<>>

\* VaultManager.MARKDOWN_EXTENSIONS
MARKDOWN_EXTENSIONS == {<<".", "m", "d">>, <<".", "m", "a", "r", "k", "d", "o", "w", "n">>}

\* VaultManager.IGNORE_DIRS
IGNORE_DIRS ==
    { <<".", "o", "b", "s", "i", "d", "i", "a", "n">>,
      <<".", "g", "i", "t">>,
      <<".", "t", "r", "a", "s", "h">>,
      <<"n", "o", "d", "e", "_", "m", "o", "d", "u", "l", "e", "s">> }

\* Faulty variant of _should_ignore: no directory is ignored.
IgnoreNothing(path) == FALSE

\* VaultManager._should_ignore
ShouldIgnore(path) == \E i \in 1..Len(path) : path[i] \in IGNORE_DIRS

----------------------------------------------------------------------------
(* The filesystem.                                                         *)
(*                                                                         *)
(* fs maps every existing path below the vault root to its node: a         *)
(* directory, or a regular file with its bytes; outside does the same for  *)
(* the paths that are not below the vault root.  mayRead: the file can be  *)
(* opened for reading.  mayWrite: the file can be opened for writing, the  *)
(* directory can take new entries.  The vault root, <<>>, is a directory   *)
(* that is always there.                                                   *)

DirNode(w) == [kind |-> "dir", data |-> <<>>, mayRead |-> TRUE, mayWrite |-> w]

FileNode(bytes, r, w) == [kind |-> "file", data |-> bytes, mayRead |-> r, mayWrite |-> w]

Exists(f, path) == path = <<>> \/ path \in DOMAIN f

IsDir(f, path) == path = <<>> \/ (path \in DOMAIN f /\ f[path].kind = "dir")

IsFile(f, path) == path \in DOMAIN f /\ f[path].kind = "file"

DirWritable(f, path) == path = <<>> \/ f[path].mayWrite

\* The proper prefixes of a path that are not the root: its ancestors.
Ancestors(path) == {SubSeq(path, 1, n) : n \in 1..(Len(path) - 1)}

\* Text mode on reading (newline=None): "\r\n" and a lone "\r" become "\n".
RECURSIVE UniversalNewlines(_, _)
UniversalNewlines(bytes, i) ==
    IF i > Len(bytes) THEN <<>>
    ELSE IF bytes[i] = "\r"
         THEN <<"\n">> \o UniversalNewlines(bytes, IF i < Len(bytes) /\ bytes[i + 1] = "\n" THEN i + 2 ELSE i + 1)
         ELSE <<bytes[i]>> \o UniversalNewlines(bytes, i + 1)

\* Path.read_text(encoding='utf-8') succeeds.
ReadTextOk(node) == node.mayRead /\ BadByte \notin Range(node.data)

\* Path.read_text(encoding='utf-8'), where it succeeds.
ReadText(node) == UniversalNewlines(node.data, 1)

\* str.encode('utf-8') succeeds.
EncodeOk(content) == Surrogate \notin Range(content)

\* The bytes Path.write_text(content, encoding='utf-8') writes where
\* os.linesep is "\n".
WriteBytes(content) == content

\* VaultFile
VaultFile(path, rel, content) == [path |-> path, relative_path |-> rel, content |-> content]

----------------------------------------------------------------------------
(* pathspec's gitwildmatch, for patterns made of names, "*", "?", "**"     *)
(* and "/".                                                                *)

\* One pattern segment against one name: "*" is any run of characters, "?"
\* any one character.
RECURSIVE GlobFrom(_, _, _, _)
GlobFrom(pat, i, name, j) ==
    IF i > Len(pat) THEN j > Len(name)
    ELSE IF pat[i] = "*"
         THEN GlobFrom(pat, i + 1, name, j) \/ (j <= Len(name) /\ GlobFrom(pat, i, name, j + 1))
    ELSE IF pat[i] = "?"
         THEN j <= Len(name) /\ GlobFrom(pat, i + 1, name, j + 1)
    ELSE j <= Len(name) /\ name[j] = pat[i] /\ GlobFrom(pat, i + 1, name, j + 1)

GlobMatch(pat, name) == GlobFrom(pat, 1, name, 1)

\* The pattern's segments from i against the path's segments from j; what
\* lies below a matched path matches too.
RECURSIVE SegsMatch(_, _, _, _)
SegsMatch(psegs, i, path, j) ==
    IF i > Len(psegs) THEN TRUE
    ELSE IF psegs[i] = <<"*", "*">>
         THEN IF i = Len(psegs) THEN j <= Len(path)
              ELSE \E k \in j..(Len(path) + 1) : SegsMatch(psegs, i + 1, path, k)
    ELSE j <= Len(path) /\ GlobMatch(psegs[i], path[j]) /\ SegsMatch(psegs, i + 1, path, j + 1)

\* PathSpec.from_lines('gitwildmatch', [pattern]).match_file(relative): a
\* pattern without a slash matches a name at any depth, one with a slash is
\* anchored at the root.
PatternMatches(pattern, path) ==
    LET psegs == SelectSeq(Split(pattern, "/"), LAMBDA seg : seg # <<>>)
    IN  IF "/" \notin Range(pattern)
        THEN \E j \in 1..Len(path) : GlobMatch(pattern, path[j])
        ELSE SegsMatch(psegs, 1, path, 1)

----------------------------------------------------------------------------
(* VaultManager: list_files, read_file, write_file.                        *)

\* The result of a call: the value returned, or an exception that leaves the
\* method.
Returned(v) == [raised |-> FALSE, value |-> v]

Raised(e) == [raised |-> TRUE, value |-> e]

Reverse(s) == [i \in 1..Len(s) |-> s[Len(s) + 1 - i]]

\* The paths of a set in ascending order of their relative path.  (The two
\* functions are merged with <<>> so that they are computed once.)
AscendingPaths(S) ==
    LET rel == [p \in S |-> RelativeStr(p)] @@ <<>>
        before == [p \in S |-> Cardinality({q \in S : StrLess(rel[q], rel[p])})] @@ <<>>
    IN  [r \in 1..Cardinality(S) |-> CHOOSE p \in S : before[p] = r - 1]

\* The orders in which vault_path.rglob('*') yields the entries of the vault.
\* It is the order in which the operating system enumerates the directories,
\* which is unspecified; the two here are the ascending and the descending
\* one.
WalkOrders == {"ascending", "descending"}

\* The paths of a set in the order in which rglob yields them.
Walk(S, order) == IF order = "ascending" THEN AscendingPaths(S) ELSE Reverse(AscendingPaths(S))

\* The tests of the loop body of list_files before the file is read.
Selected(f, pattern, path) ==
    /\ IsFile(f, path)
    /\ Lower(Suffix(BaseName(path))) \in MARKDOWN_EXTENSIONS
    /\ ~ShouldIgnore(path)
    /\ (pattern # <<>> => PatternMatches(pattern, path))

\* Faulty variant of the loop of list_files: the read is not guarded, and the
\* first file that cannot be read or decoded ends the scan with its error.
ScannedUnguarded(f, pattern, order) ==
    LET chosen == {path \in DOMAIN f : Selected(f, pattern, path)}
        kept == Walk({path \in chosen : ReadTextOk(f[path])}, order)
    IN  IF \E path \in chosen : ~ReadTextOk(f[path])
        THEN Raised("OSError")
        ELSE Returned([i \in 1..Len(kept) |->
                 VaultFile(kept[i], RelativeStr(kept[i]), ReadText(f[kept[i]]))])

\* The files list_files appends while it walks vault_path.rglob('*'), in the
\* order of that walk: a file whose read_text raises is skipped.
Scanned(f, pattern, order) ==
    LET kept == Walk({path \in DOMAIN f : Selected(f, pattern, path) /\ ReadTextOk(f[path])}, order)
    IN  Returned([i \in 1..Len(kept) |->
            VaultFile(kept[i], RelativeStr(kept[i]), ReadText(f[kept[i]]))])

\* Faulty variant of the return of list_files: the files are left in the order
\* of the walk.
AsScanned(files) == files

\* sorted(files, key=lambda f: f.relative_path)
SortedByPath(files) ==
    Sorted(files, StrKeysLess([i \in 1..Len(files) |-> files[i].relative_path] \o <<>>))

\* VaultManager.list_files(pattern); the empty pattern is no pattern.
ListFiles(f, pattern, order) ==
    LET scan == Scanned(f, pattern, order)
    IN  IF scan.raised THEN scan ELSE Returned(SortedByPath(scan.value))

\* VaultManager.read_file(relative_path): <<>> is None.
ReadFile(f, rel) ==
    LET path == PathOf(rel)
    IN  IF ~Exists(f, path) THEN Returned(<<>>)
        ELSE IF ~IsFile(f, path) THEN Returned(<<>>)
        ELSE IF ReadTextOk(f[path])
             THEN Returned(<<VaultFile(path, rel, ReadText(f[path]))>>)
             ELSE Returned(<<>>)

\* file_path.parent.mkdir(parents=True, exist_ok=True) raises: an ancestor is
\* a regular file, or the directory that is to take the first missing one
\* takes no entries.
MkdirRaises(f, path) ==
    LET missing == {a \in Ancestors(path) : a \notin DOMAIN f}
    IN  \/ \E a \in Ancestors(path) : IsFile(f, a)
        \/ /\ missing # {}
           /\ LET top == CHOOSE a \in missing : \A b \in missing : Len(a) <= Len(b)
              IN  ~DirWritable(f, Parent(top))

\* The filesystem after that mkdir has succeeded.
AfterMkdir(f, path) ==
    LET missing == {a \in Ancestors(path) : a \notin DOMAIN f}
    IN  [a \in missing |-> DirNode(TRUE)] @@ f

\* file_path.write_text(content, encoding='utf-8'): open(file, 'w') creates
\* or truncates the file, and only then is the content encoded and written.
\* The result and the filesystem left behind.
WriteText(f, path, content) ==
    IF IsDir(f, path) THEN [ok |-> FALSE, fs |-> f]
    ELSE IF path \in DOMAIN f /\ ~f[path].mayWrite THEN [ok |-> FALSE, fs |-> f]
    ELSE IF path \notin DOMAIN f /\ ~DirWritable(f, Parent(path)) THEN [ok |-> FALSE, fs |-> f]
    ELSE LET opened == IF path \in DOMAIN f
                       THEN [f EXCEPT ![path].data = <<>>]
                       ELSE (path :> FileNode(<<>>, TRUE, TRUE)) @@ f
         IN  IF EncodeOk(content)
             THEN [ok |-> TRUE, fs |-> [opened EXCEPT ![path].data = WriteBytes(content)]]
             ELSE [ok |-> FALSE, fs |-> opened]

\* VaultManager.write_file(relative_path, content): the result and the
\* filesystem left behind.  The mkdir stands before the try.
WriteFile(f, rel, content) ==
    LET path == PathOf(rel)
    IN  IF MkdirRaises(f, path)
        THEN [result |-> Raised("OSError"), fs |-> f]
        ELSE LET w == WriteText(AfterMkdir(f, path), path, content)
             IN  [result |-> Returned(w.ok), fs |-> w.fs]

\* Faulty variant of search_content: the query is folded, the content is not.
SearchQueryFolded(f, query, case_sensitive, order) ==
    LET listing == ListFiles(f, <<>>, order)
        search_query == IF case_sensitive THEN query ELSE Lower(query)
    IN  IF listing.raised THEN listing
        ELSE Returned(SelectSeq(listing.value,
                                LAMBDA vault_file : Contains(vault_file.content, search_query)))

\* VaultManager.search_content(query, case_sensitive)
SearchContent(f, query, case_sensitive, order) ==
    LET listing == ListFiles(f, <<>>, order)
        search_query == IF case_sensitive THEN query ELSE Lower(query)
        Matches(vault_file) ==
            Contains(IF case_sensitive THEN vault_file.content ELSE Lower(vault_file.content),
                     search_query)
    IN  IF listing.raised THEN listing
        ELSE Returned(SelectSeq(listing.value, Matches))

----------------------------------------------------------------------------
(* VaultManager.get_file_tree.                                             *)

\* The entries of a directory: dir_path.iterdir(), here in ascending order
\* of name.
Children(f, dir) ==
    AscendingPaths({path \in DOMAIN f : Len(path) = Len(dir) + 1 /\ Parent(path) = dir})

\* key=lambda x: (not x.is_dir(), x.name.lower())
TreeKey(f, x) == <<~IsDir(f, x), Lower(BaseName(x))>>

\* a < b on such keys: tuples compare item by item, and False < True.
TreeLess(a, b) ==
    \/ ~a[1] /\ b[1]
    \/ a[1] = b[1] /\ StrLess(a[2], b[2])

\* sorted(dir_path.iterdir(), key=...)
SortedForTree(f, entries) ==
    LET keys == [i \in 1..Len(entries) |-> TreeKey(f, entries[i])] \o <<>>
    IN  Sorted(entries,
               [i \in 1..Len(entries) |-> [j \in 1..Len(entries) |-> TreeLess(keys[i], keys[j])]])

\* The filter of add_directory: directories that are neither ignored nor
\* dot-named, and files with a markdown extension.
TreeShown(f, item) ==
    IF IsDir(f, item)
    THEN BaseName(item) \notin IGNORE_DIRS /\ ~StartsWith(BaseName(item), <<".">>)
    ELSE Lower(Suffix(BaseName(item))) \in MARKDOWN_EXTENSIONS

\* One rendered line: f"{prefix}{connector}{icon} {name}", the prefix kept as
\* its four-character units.
TreeLine(prefix, connector, icon, name) ==
    [prefix |-> prefix, connector |-> connector, icon |-> icon, name |-> name]

\* Faulty variant of the depth test: one level too many.
DepthPassed(depth, max_depth) == depth > max_depth

\* if depth >= max_depth: return
DepthReached(depth, max_depth) == depth >= max_depth

RECURSIVE AddDirectory(_, _, _, _, _)
RECURSIVE AddItems(_, _, _, _, _, _)
\* The lines add_directory(dir_path, prefix, depth) appends.
AddDirectory(f, dir, prefix, depth, max_depth) ==
    IF DepthReached(depth, max_depth) THEN <<>>
    ELSE LET items == SortedForTree(f, Children(f, dir))
             filtered_items == SelectSeq(items, LAMBDA item : TreeShown(f, item))
         IN  AddItems(f, filtered_items, 1, prefix, depth, max_depth)

\* The loop over filtered_items, from item i.
AddItems(f, items, i, prefix, depth, max_depth) ==
    IF i > Len(items) THEN <<>>
    ELSE LET item == items[i]
             is_last == i = Len(items)
             connector == IF is_last THEN "L-- " ELSE "|-- "
             new_prefix == prefix \o <<IF is_last THEN "    " ELSE "|   ">>
         IN  (IF IsDir(f, item)
              THEN <<TreeLine(prefix, connector, "dir", BaseName(item))>>
                       \o AddDirectory(f, item, new_prefix, depth + 1, max_depth)
              ELSE <<TreeLine(prefix, connector, "file", BaseName(item))>>)
             \o AddItems(f, items, i + 1, prefix, depth, max_depth)

\* VaultManager.get_file_tree(max_depth): the lines that are joined, the
\* first one being the root's.
GetFileTree(f, max_depth) ==
    Returned(<<TreeLine(<<>>, "", "dir", <<>>)>> \o AddDirectory(f, <<>>, <<>>, 0, max_depth))

----------------------------------------------------------------------------
(* VaultManager.list_tags.                                                 *)

Dashes == <<"-", "-", "-">>

Fence == <<Backtick, Backtick, Backtick>>

\* frontmatter_pattern.match(content) for r'^---\s*\n(.*?)\n---' with
\* re.DOTALL: <<group(1)>>, or <<>> where the pattern does not match.  The
\* greedy \s* gives back characters until a "\n" follows it from which the
\* lazy group reaches a "\n---".
FrontmatterMatch(content) ==
    IF ~StartsWith(content, Dashes) THEN <<>>
    ELSE LET spaceEnd == LStripPos(content, 4, {" ", "\t", "\n", "\r"})
             Closing(k) == FindFrom(content, k + 1, <<"\n">> \o Dashes)
             seps == {k \in 4..(spaceEnd - 1) : content[k] = "\n" /\ Closing(k) # 0}
         IN  IF seps = {} THEN <<>>
             ELSE LET k == CHOOSE x \in seps : \A y \in seps : y <= x
                  IN  <<Slice(content, k + 1, Closing(k) - 1)>>

Quotes == {"\"", "'"}

\* The tags one line of the frontmatter adds to found_tags.
LineTags(frontmatter, rawLine) ==
    LET line == Strip(rawLine)
    IN  IF StartsWith(line, <<"t", "a", "g", "s", ":">>)
        THEN LET rest == Strip(Slice(line, 6, Len(line)))
                 pieces == Split(StripChars(rest, {"[", "]"}), ",")
             IN  IF rest = <<>> THEN {}
                 ELSE {StripChars(Strip(pieces[i]), Quotes) : i \in 1..Len(pieces)} \ {<<>>}
        ELSE IF StartsWith(line, <<"-", " ">>) /\ Contains(frontmatter, <<"t", "a", "g", "s">>)
        THEN LET tag == StripChars(Strip(Slice(line, 3, Len(line))), Quotes)
             IN  IF tag # <<>> /\ ":" \notin Range(tag) THEN {tag} ELSE {}
        ELSE {}

\* The tags found in the frontmatter of a content.
FrontmatterTags(content) ==
    LET fm_match == FrontmatterMatch(content)
    IN  IF fm_match = <<>> THEN {}
        ELSE LET lines == Split(fm_match[1], "\n")
             IN  UNION {LineTags(fm_match[1], lines[i]) : i \in 1..Len(lines)}

\* re.sub(r'```.*?```', '', content, flags=re.DOTALL), from position i: each
\* fence is paired with the next one, and what lies between goes with them.
RECURSIVE StripFenced(_, _)
StripFenced(content, i) ==
    LET opening == FindFrom(content, i, Fence)
        closing == IF opening = 0 THEN 0 ELSE FindFrom(content, opening + 3, Fence)
    IN  IF closing = 0 THEN Slice(content, i, Len(content))
        ELSE Slice(content, i, opening - 1) \o StripFenced(content, closing + 3)

\* re.sub(r'`[^`]+`', '', text), from position i: a backtick, one or more
\* characters that are not backticks, a backtick.
RECURSIVE StripInline(_, _)
StripInline(text, i) ==
    LET opening == FindFrom(text, i, <<Backtick>>)
        closing == IF opening = 0 THEN 0 ELSE FindFrom(text, opening + 1, <<Backtick>>)
    IN  IF closing = 0 THEN Slice(text, i, Len(text))
        ELSE IF closing = opening + 1
             THEN Slice(text, i, opening) \o StripInline(text, opening + 1)
             ELSE Slice(text, i, opening - 1) \o StripInline(text, closing + 1)

\* content_no_code
ContentNoCode(content) == StripInline(StripFenced(content, 1), 1)

\* [a-zA-Z0-9_/-]
IsTagChar(c) == IsLetter(c) \/ IsDigit(c) \/ c \in {"_", "/", "-"}

\* The end of the run of tag characters that starts at position i.
RECURSIVE TagEnd(_, _)
TagEnd(text, i) ==
    IF i < Len(text) /\ IsTagChar(text[i + 1]) THEN TagEnd(text, i + 1) ELSE i

\* inline_tag_pattern matches at position i: r'(?<!\S)#([a-zA-Z][a-zA-Z0-9_/-]*)'
TagStartsAt(text, i) ==
    /\ text[i] = "#"
    /\ (i = 1 \/ IsSpace(text[i - 1]))
    /\ i < Len(text)
    /\ IsLetter(text[i + 1])

\* group(1) of every match of inline_tag_pattern.finditer(text); no match
\* can start inside another, "#" being no tag character.
PatternTags(text) ==
    {Slice(text, i + 1, TagEnd(text, i + 1)) : i \in {j \in 1..Len(text) : TagStartsAt(text, j)}}

\* The inline tags of a content.
InlineTags(content) == PatternTags(ContentNoCode(content))

\* found_tags of one file
FoundTags(content) == FrontmatterTags(content) \cup InlineTags(content)

\* The top-level keys a frontmatter block defines: the text before the first
\* colon of every line that starts a "key: value" pair (a line that is not
\* indented, no list item and no comment).
FrontmatterKeys(content) ==
    LET fm_match == FrontmatterMatch(content)
        lines == Split(fm_match[1], "\n")
        Colon(line) == FindFrom(line, 1, <<":">>)
        IsKeyLine(line) ==
            /\ line # <<>>
            /\ ~IsSpace(line[1])
            /\ line[1] \notin {"-", "#"}
            /\ Colon(line) > 1
    IN  IF fm_match = <<>> THEN {}
        ELSE {Strip(Slice(lines[i], 1, Colon(lines[i]) - 1)) :
                 i \in {j \in 1..Len(lines) : IsKeyLine(lines[j])}}

\* The order in which Python iterates a set of str: it follows the hashes of
\* the strings, which the seed of the process decides.  Two orders are
\* modelled: ascending and descending.
SetOrder(seed, S) ==
    LET before == [t \in S |-> Cardinality({u \in S : StrLess(u, t)})] @@ <<>>
        ascending == [r \in 1..Cardinality(S) |-> CHOOSE t \in S : before[t] = r - 1]
    IN  IF seed = "s0" THEN ascending ELSE Reverse(ascending)

\* tag_to_files[tag].append(relative_path) on a dict kept as the sequence of
\* its items in insertion order.
DictAppend(dict, key, rel) ==
    IF \E i \in 1..Len(dict) : dict[i].key = key
    THEN [i \in 1..Len(dict) |->
             IF dict[i].key = key THEN [dict[i] EXCEPT !.files = @ \o <<rel>>] ELSE dict[i]]
    ELSE dict \o <<[key |-> key, files |-> <<rel>>]>>

\* for tag in found_tags: tag_to_files[tag].append(vault_file.relative_path)
RECURSIVE AddKeys(_, _, _, _)
AddKeys(dict, keys, i, rel) ==
    IF i > Len(keys) THEN dict
    ELSE AddKeys(DictAppend(dict, keys[i], rel), keys, i + 1, rel)

\* The loop of list_tags over the files, from file i, with KeysOf the keys a
\* content contributes.
RECURSIVE IndexFrom(_, _, _, _, _)
IndexFrom(files, i, dict, seed, kind) ==
    IF i > Len(files) THEN dict
    ELSE LET found == IF kind = "tags" THEN FoundTags(files[i].content)
                      ELSE FrontmatterKeys(files[i].content)
         IN  IndexFrom(files, i + 1,
                       AddKeys(dict, SetOrder(seed, found), 1, files[i].relative_path),
                       seed, kind)

\* Faulty variant of the return of list_tags: the dict keeps its insertion
\* order.
AsInserted(dict) == dict

\* dict(sorted(tag_to_files.items(), key=lambda x: x[0].lower()))
SortedByKey(dict) ==
    Sorted(dict, StrKeysLess([i \in 1..Len(dict) |-> Lower(dict[i].key)] \o <<>>))

\* VaultManager.list_tags(): the items of the dict returned, in its order.
ListTags(f, seed, order) ==
    LET listing == ListFiles(f, <<>>, order)
    IN  IF listing.raised THEN listing
        ELSE Returned(SortedByKey(IndexFrom(listing.value, 1, <<>>, seed, "tags")))

\* VaultManager.list_yaml_keys(): the items of the dict returned, in its
\* order.
ListYamlKeys(f, seed, order) ==
    LET listing == ListFiles(f, <<>>, order)
    IN  IF listing.raised THEN listing
        ELSE Returned(SortedByKey(IndexFrom(listing.value, 1, <<>>, seed, "keys")))

----------------------------------------------------------------------------
(* VaultAgent (src/src/agent.py).                                          *)
(*                                                                         *)
(* agent holds the VaultAgent object and the frame of its running chat.    *)
(* conversation_history and vault_index are the attributes of the object.  *)
(* messages is the local list of chat, empty when no chat runs.  pc is     *)
(* "idle" when no chat runs and "model" while chat waits for the answer to *)
(* client.chat.completions.create.  builds counts the calls of             *)
(* _build_vault_index since the construction or the last reset, calls the  *)
(* calls of the model since the construction.                              *)

\* None, for _vault_index
None == <<>>

\* A message of the conversation: a dict with role and content, and with
\* tool_calls or tool_call_id where the message carries them.
Message(role, content, tool_calls, tool_call_id) ==
    [role |-> role, content |-> content, tool_calls |-> tool_calls, tool_call_id |-> tool_call_id]

\* One piece of text made by an f-string: its literal text, and the name and
\* the number put into it.
Line(text, name, n) == [text |-> text, name |-> name, n |-> n]

\* SYSTEM_PROMPT (its first sentence)
SYSTEM_PROMPT == "You are an intelligent assistant for managing an Obsidian vault."

\* VaultAgent._build_vault_index(): the lines of the summary, which the code
\* joins with "\n".  (list_files, list_tags and list_yaml_keys raise nothing
\* in the environment of the model.)
BuildVaultIndex(f, seed, order) ==
    LET lines(files, tags, yaml_keys) ==
            <<Line("Vault Index (auto-scanned at conversation start)", <<>>, 0),
              Line("- Files: {len(files)}", <<>>, Len(files))>>
            \o (IF files # <<>> THEN <<Line("  File list:", <<>>, 0)>> ELSE <<>>)
            \o [i \in 1..Len(files) |->
                   Line("    - {f.relative_path}", files[i].relative_path, 0)]
            \o <<Line("- Tags: {len(tags)}", <<>>, Len(tags))>>
            \o [i \in 1..Len(tags) |->
                   Line("    - #{tag} ({len(file_list)} files)", tags[i].key,
                        Len(tags[i].files))]
            \o <<Line("- YAML keys: {len(yaml_keys)}", <<>>, Len(yaml_keys))>>
            \o [i \in 1..Len(yaml_keys) |->
                   Line("    - {key} ({len(file_list)} files)", yaml_keys[i].key,
                        Len(yaml_keys[i].files))]
    IN  lines(ListFiles(f, <<>>, order).value,
              ListTags(f, seed, order).value,
              ListYamlKeys(f, seed, order).value)

\* json.loads(text), for a text given as the sequence of its tokens, each
\* token a sequence of characters: an object whose members have str keys and
\* values that are a str, true, false or a digit parses to the dict of its
\* members (a later member replaces an earlier one of the same key);
\* anything else is taken as no JSON and raises JSONDecodeError.
JsonLoads(tokens) ==
    LET n == Len(tokens)
        members == (n - 1) \div 4
        IsString(t) == Len(t) >= 2 /\ t[1] = "\"" /\ t[Len(t)] = "\""
        true == <<"t", "r", "u", "e">>
        false == <<"f", "a", "l", "s", "e">>
        IsValue(t) == IsString(t) \/ t \in {true, false} \/ (Len(t) = 1 /\ IsDigit(t[1]))
        Value(t) == IF IsString(t) THEN Slice(t, 2, Len(t) - 1)
                    ELSE IF t = true THEN TRUE
                    ELSE IF t = false THEN FALSE
                    ELSE Ord[t[1]] - 48
        Key(m) == Slice(tokens[4 * m - 2], 2, Len(tokens[4 * m - 2]) - 1)
        wellFormed ==
            /\ n >= 2
            /\ tokens[1] = <<"{">>
            /\ tokens[n] = <<"}">>
            /\ n = 2 \/ n = 4 * members + 1
            /\ n > 2 => \A m \in 1..members :
                  /\ IsString(tokens[4 * m - 2])
                  /\ tokens[4 * m - 1] = <<":">>
                  /\ IsValue(tokens[4 * m])
                  /\ m < members => tokens[4 * m + 1] = <<",">>
        Last(key) == CHOOSE m \in 1..members :
                         Key(m) = key /\ \A k \in (m + 1)..members : Key(k) # key
    IN  IF ~wellFormed THEN [ok |-> FALSE, value |-> <<>>]
        ELSE IF n = 2 THEN [ok |-> TRUE, value |-> <<>>]
        ELSE [ok |-> TRUE,
              value |-> [key \in {Key(m) : m \in 1..members} |-> Value(tokens[4 * Last(key)])]]

\* VaultAgent._execute_tool(tool_name, tool_input): the text returned, as
\* its lines, and the filesystem left behind.  An exception of the branch (a
\* key that tool_input lacks, an exception out of the vault) is caught and
\* becomes the text "Error executing ...".
ExecuteTool(f, o, tool_name, tool_input, seed, order) ==
    LET Has(key) == key \in DOMAIN tool_input
        Get(key, default) == IF Has(key) THEN tool_input[key] ELSE default
        path == <<"p", "a", "t", "h">>
        content == <<"c", "o", "n", "t", "e", "n", "t">>
        query == <<"q", "u", "e", "r", "y">>
        Text(lines) == [content |-> lines, fs |-> f, outside |-> o]
        Caught == Text(<<Line("Error executing {tool_name}: {str(e)}", tool_name, 0)>>)
        Found(heading, empty, files) ==
            IF files = <<>> THEN Text(<<empty>>)
            ELSE Text(<<Line(heading, <<>>, Len(files))>>
                      \o [i \in 1..Len(files) |->
                             Line("- {f.relative_path}", files[i].relative_path, 0)])
        Counted(heading, empty, item, dict) ==
            IF dict = <<>> THEN Text(<<Line(empty, <<>>, 0)>>)
            ELSE Text(<<Line(heading, <<>>, Len(dict))>>
                      \o [i \in 1..Len(dict) |->
                             Line(item, <<dict[i].key, Len(dict[i].files) # 1>>,
                                  Len(dict[i].files))])
    IN  CASE tool_name = "list_files" ->
                 Found("Found {len(files)} file(s):",
                       Line("No files found matching the criteria.", <<>>, 0),
                       ListFiles(f, Get(<<"p", "a", "t", "t", "e", "r", "n">>, <<>>), order).value)
          [] tool_name = "read_file" ->
                 IF ~Has(path) THEN Caught
                 ELSE LET Read(file) ==
                              IF file = <<>>
                              THEN Text(<<Line("Error: File not found: {tool_input['path']}",
                                               tool_input[path], 0)>>)
                              ELSE Text(<<Line("**File: {file.relative_path}**",
                                               file[1].relative_path, 0),
                                          Line("markdown fence {file.content} fence",
                                               file[1].content, 0)>>)
                      IN  Read(ReadFile(f @@ o, tool_input[path]).value)
          [] tool_name = "write_file" ->
                 IF ~Has(path) \/ ~Has(content) THEN Caught
                 ELSE LET Wrote(w) ==
                              IF w.result.raised THEN Caught
                              ELSE [content |->
                                        <<Line(IF w.result.value
                                               THEN "Successfully wrote to: {tool_input['path']}"
                                               ELSE "Failed to write to: {tool_input['path']}",
                                               tool_input[path], 0)>>,
                                    fs |-> [p \in {q \in DOMAIN w.fs : InVault(q)} |-> w.fs[p]],
                                    outside |->
                                        [p \in {q \in DOMAIN w.fs : ~InVault(q)} |-> w.fs[p]]]
                      IN  Wrote(WriteFile(f @@ o, tool_input[path], tool_input[content]))
          [] tool_name = "search" ->
                 IF ~Has(query) THEN Caught
                 ELSE Found("Found {len(files)} file(s) containing '{tool_input['query']}':",
                            Line("No files found containing: {tool_input['query']}",
                                 tool_input[query], 0),
                            SearchContent(f, tool_input[query],
                                          Get(<<"c", "a", "s", "e", "_", "s", "e", "n", "s", "i",
                                                "t", "i", "v", "e">>, FALSE),
                                          order).value)
          [] tool_name = "tree" ->
                 Text(GetFileTree(f, Get(<<"m", "a", "x", "_", "d", "e", "p", "t", "h">>, 3)).value)
          [] tool_name = "list_tags" ->
                 Counted("Found {len(tags)} unique tag(s) across the vault:",
                         "No tags found in the vault.",
                         "- #{tag} ({len(files)} file{'s' if len(files) != 1 else ''})",
                         ListTags(f, seed, order).value)
          [] tool_name = "list_yaml_keys" ->
                 Counted("Found {len(keys)} unique YAML frontmatter key(s) across the vault:",
                         "No YAML frontmatter keys found in the vault.",
                         "- {key} ({len(files)} file{'s' if len(files) != 1 else ''})",
                         ListYamlKeys(f, seed, order).value)
          [] OTHER -> Text(<<Line("Unknown tool: {tool_name}", tool_name, 0)>>)

\* The for loop of chat over the tool calls of one assistant message, from
\* call i: json.loads of the arguments (outside any try, so its error ends
\* the loop and chat), _execute_tool, and the tool message appended to the
\* history and to messages.
RECURSIVE ToolLoop(_, _, _, _, _)
ToolLoop(st, tool_calls, i, seed, order) ==
    IF st.raised \/ i > Len(tool_calls) THEN st
    ELSE LET Answered(result) ==
                 LET tool_message == Message("tool", result.content, <<>>, tool_calls[i].id)
                 IN  [st EXCEPT !.conversation_history = Append(@, tool_message),
                                !.messages = Append(@, tool_message),
                                !.fs = result.fs,
                                !.outside = result.outside]
             Loaded(function_args) ==
                 IF ~function_args.ok THEN [st EXCEPT !.raised = TRUE]
                 ELSE Answered(ExecuteTool(st.fs, st.outside, tool_calls[i].name,
                                           function_args.value, seed, order))
         IN  ToolLoop(Loaded(JsonLoads(tool_calls[i].arguments)),
                      tool_calls, i + 1, seed, order)

\* The agent after VaultAgent.__init__
NewAgent ==
    [conversation_history |-> <<>>, vault_index |-> None, messages |-> <<>>,
     pc |-> "idle", builds |-> 0, calls |-> 0]

\* Faulty variant of the test of chat: the index is built at every chat.
IndexAlwaysMissing(index) == TRUE

\* self._vault_index is None
IndexMissing(index) == index = None

----------------------------------------------------------------------------
(* The vaults and the inputs of the model.                                 *)

\* "# A\n#todo"
TextA ==
    <<"#", " ", "A", "\n", "#", "t", "o", "d", "o">>

\* "---\ntags: [work, todo]\n---\nbody"
TextC ==
    <<"-", "-", "-", "\n", "t", "a", "g", "s", ":", " ", "[", "w", "o", "r",
      "k", ",", " ", "t", "o", "d", "o", "]", "\n", "-", "-", "-", "\n", "b",
      "o", "d", "y">>

\* "#hidden"
TextSecret ==
    <<"#", "h", "i", "d", "d", "e", "n">>

\* "X marks"
TextUpper ==
    <<"X", " ", "m", "a", "r", "k", "s">>

\* "x here #Todo #todo"
TextLower ==
    <<"x", " ", "h", "e", "r", "e", " ", "#", "T", "o", "d", "o", " ", "#",
      "t", "o", "d", "o">>

\* "---\nstatus: done\n---\n"
TextDone ==
    <<"-", "-", "-", "\n", "s", "t", "a", "t", "u", "s", ":", " ", "d", "o",
      "n", "e", "\n", "-", "-", "-", "\n">>

\* "---\ntags: [alpha, beta]\n---\n#gamma #alpha\n```\n#nottag\n```\nfoo#bar #gamma"
TextTagged ==
    <<"-", "-", "-", "\n", "t", "a", "g", "s", ":", " ", "[", "a", "l", "p",
      "h", "a", ",", " ", "b", "e", "t", "a", "]", "\n", "-", "-", "-", "\n",
      "#", "g", "a", "m", "m", "a", " ", "#", "a", "l", "p", "h", "a", "\n",
      Backtick, Backtick, Backtick, "\n", "#", "n", "o", "t", "t", "a", "g",
      "\n", Backtick, Backtick, Backtick, "\n", "f", "o", "o", "#", "b", "a",
      "r", " ", "#", "g", "a", "m", "m", "a">>

\* "#Beta #alpha"
TextBeta ==
    <<"#", "B", "e", "t", "a", " ", "#", "a", "l", "p", "h", "a">>

\* "X\r\ny"
TextCr ==
    <<"X", "\r", "\n", "y">>

\* "---\nstatus: done\n---\n#todo"
TextDoneTodo ==
    <<"-", "-", "-", "\n", "s", "t", "a", "t", "u", "s", ":", " ", "d", "o",
      "n", "e", "\n", "-", "-", "-", "\n", "#", "t", "o", "d", "o">>

\* the bytes of "ok" followed by bytes that are not UTF-8
BytesBad ==
    <<"o", "k", BadByte>>

\* "s" followed by a lone surrogate, as json.loads gives for "s\ud800"
TextSurrogate ==
    <<"s", Surrogate>>

\* Relative paths, as the str the caller gives or list_files builds.
rel_a_md == <<"a", ".", "m", "d">> \* a.md
rel_b == <<"b">> \* b
rel_b_c_md == <<"b", "/", "c", ".", "m", "d">> \* b/c.md
rel_b__git_secret_md == <<"b", "/", ".", "g", "i", "t", "/", "s", "e", "c", "r", "e", "t", ".", "m", "d">> \* b/.git/secret.md
rel_N_MD == <<"N", ".", "M", "D">> \* N.MD
rel_x_markdown == <<"x", ".", "m", "a", "r", "k", "d", "o", "w", "n">> \* x.markdown
rel_t_txt == <<"t", ".", "t", "x", "t">> \* t.txt
rel_bad_md == <<"b", "a", "d", ".", "m", "d">> \* bad.md
rel_lock_md == <<"l", "o", "c", "k", ".", "m", "d">> \* lock.md
rel_node_modules_m_md == <<"n", "o", "d", "e", "_", "m", "o", "d", "u", "l", "e", "s", "/", "m", ".", "m", "d">> \* node_modules/m.md
rel_d_e_f_md == <<"d", "/", "e", "/", "f", ".", "m", "d">> \* d/e/f.md
rel__hid_h_md == <<".", "h", "i", "d", "/", "h", ".", "m", "d">> \* .hid/h.md
rel_t1_md == <<"t", "1", ".", "m", "d">> \* t1.md
rel_t2_md == <<"t", "2", ".", "m", "d">> \* t2.md
rel_s_done_md == <<"s", "/", "d", "o", "n", "e", ".", "m", "d">> \* s/done.md
rel_s_both_md == <<"s", "/", "b", "o", "t", "h", ".", "m", "d">> \* s/both.md
rel_a_md_x_md == <<"a", ".", "m", "d", "/", "x", ".", "m", "d">> \* a.md/x.md
rel_ro_z_k_md == <<"r", "o", "/", "z", "/", "k", ".", "m", "d">> \* ro/z/k.md
rel_up_o_md == <<".", ".", "/", "o", ".", "m", "d">> \* ../o.md
rel_abs_p_md == <<"/", "p", ".", "m", "d">> \* /p.md

\* Patterns for list_files.
PatMd == <<"*", ".", "m", "d">> \* *.md
PatB == <<"b", "/", "*">> \* b/*
PatAnyF == <<"*", "*", "/", "f", ".", "m", "d">> \* **/f.md

\* The vault of the scenario of the specification.
VaultScenario ==
       (PathOf(rel_a_md) :> FileNode(TextA, TRUE, TRUE))
    @@ (PathOf(rel_b) :> DirNode(TRUE))
    @@ (PathOf(rel_b_c_md) :> FileNode(TextC, TRUE, TRUE))
    @@ (Parent(PathOf(rel_b__git_secret_md)) :> DirNode(TRUE))
    @@ (PathOf(rel_b__git_secret_md) :> FileNode(TextSecret, TRUE, TRUE))

\* Mixed extensions and letter case, ignored and hidden directories, a file
\* that does not decode, a file that cannot be opened for reading, a directory
\* that takes no new entries, and files three levels down.
VaultMixed ==
       (PathOf(rel_N_MD) :> FileNode(TextUpper, TRUE, TRUE))
    @@ (PathOf(rel_x_markdown) :> FileNode(TextLower, TRUE, TRUE))
    @@ (PathOf(rel_t_txt) :> FileNode(TextSecret, TRUE, TRUE))
    @@ (PathOf(rel_bad_md) :> FileNode(BytesBad, TRUE, TRUE))
    @@ (PathOf(rel_lock_md) :> FileNode(TextSecret, FALSE, TRUE))
    @@ (Parent(PathOf(rel_node_modules_m_md)) :> DirNode(TRUE))
    @@ (PathOf(rel_node_modules_m_md) :> FileNode(TextSecret, TRUE, TRUE))
    @@ (Parent(Parent(PathOf(rel_d_e_f_md))) :> DirNode(TRUE))
    @@ (Parent(PathOf(rel_d_e_f_md)) :> DirNode(TRUE))
    @@ (PathOf(rel_d_e_f_md) :> FileNode(TextDone, TRUE, TRUE))
    @@ (Parent(Parent(PathOf(rel_ro_z_k_md))) :> DirNode(FALSE))
    @@ (Parent(PathOf(rel__hid_h_md)) :> DirNode(TRUE))
    @@ (PathOf(rel__hid_h_md) :> FileNode(TextSecret, TRUE, TRUE))

\* Files for the tag index: tags in frontmatter and inline, repeated, in code,
\* and in two letter cases.
VaultTags ==
       (PathOf(rel_t1_md) :> FileNode(TextTagged, TRUE, TRUE))
    @@ (PathOf(rel_t2_md) :> FileNode(TextBeta, TRUE, TRUE))
    @@ (Parent(PathOf(rel_s_done_md)) :> DirNode(TRUE))
    @@ (PathOf(rel_s_done_md) :> FileNode(TextDone, TRUE, TRUE))
    @@ (PathOf(rel_s_both_md) :> FileNode(TextDoneTodo, TRUE, TRUE))

InitialVaults == {VaultScenario, VaultMixed, VaultTags}

\* What the filesystem holds outside the vault: the directory above the vault
\* root, and the root of the filesystem with a file of another owner in it.
OutsideVault ==
       (Parent(PathOf(rel_up_o_md)) :> DirNode(TRUE))
    @@ (Parent(PathOf(rel_abs_p_md)) :> DirNode(FALSE))
    @@ (PathOf(rel_abs_p_md) :> FileNode(TextSecret, TRUE, FALSE))

Patterns == {<<>>, PatMd, PatB, PatAnyF}

ReadPaths == {rel_a_md, rel_ro_z_k_md, rel_b, rel_lock_md, rel_bad_md, rel_up_o_md, rel_abs_p_md}

WritePaths == {rel_a_md, rel_a_md_x_md, rel_b, rel_ro_z_k_md, rel_up_o_md}

WriteContents == {TextCr, TextLower, TextSurrogate}

\* Queries of search_content: "X", "x h".
Queries == {<<"X">>, <<"x", " ", "h">>}

\* The largest max_depth given to get_file_tree.
MaxTreeDepth == 2

\* The number of write_file calls in one run of the model.
MaxWrites == 1

\* The seeds of str hashing (PYTHONHASHSEED) of the process that makes a
\* call: the order in which a set of str is iterated depends on it.
HashSeeds == {"s0", "s1"}

----------------------------------------------------------------------------
(* The state machine: one action per operation of VaultManager.            *)

Init ==
    /\ fs \in InitialVaults
    /\ outside = OutsideVault
    /\ agent = NewAgent
    /\ op = "init"
    /\ arg = [none |-> TRUE]
    /\ ret = Returned(<<>>)
    /\ nwrites = 0

DoListFiles ==
    \E pattern \in Patterns, order \in WalkOrders :
        /\ op' = "list_files"
        /\ arg' = [pattern |-> pattern]
        /\ ret' = ListFiles(fs, pattern, order)
        /\ UNCHANGED <<fs, outside, nwrites, agent>>

DoReadFile ==
    \E rel \in ReadPaths :
        /\ op' = "read_file"
        /\ arg' = [path |-> rel]
        /\ ret' = ReadFile(fs @@ outside, rel)
        /\ UNCHANGED <<fs, outside, nwrites, agent>>

DoWriteFile ==
    \E rel \in WritePaths, content \in WriteContents :
        /\ nwrites < MaxWrites
        /\ LET w == WriteFile(fs @@ outside, rel, content)
           IN  /\ op' = "write_file"
               /\ arg' = [path |-> rel, content |-> content]
               /\ ret' = w.result
               /\ fs' = [path \in {q \in DOMAIN w.fs : InVault(q)} |-> w.fs[path]]
               /\ outside' = [path \in {q \in DOMAIN w.fs : ~InVault(q)} |-> w.fs[path]]
        /\ nwrites' = nwrites + 1
        /\ UNCHANGED agent

DoSearchContent ==
    \E query \in Queries, case_sensitive \in BOOLEAN, order \in WalkOrders :
        /\ op' = "search_content"
        /\ arg' = [query |-> query, case_sensitive |-> case_sensitive]
        /\ ret' = SearchContent(fs, query, case_sensitive, order)
        /\ UNCHANGED <<fs, outside, nwrites, agent>>

DoGetFileTree ==
    \E max_depth \in 0..MaxTreeDepth :
        /\ op' = "get_file_tree"
        /\ arg' = [max_depth |-> max_depth]
        /\ ret' = GetFileTree(fs, max_depth)
        /\ UNCHANGED <<fs, outside, nwrites, agent>>

DoListTags ==
    \E seed \in HashSeeds, order \in WalkOrders :
        /\ op' = "list_tags"
        /\ arg' = [none |-> TRUE]
        /\ ret' = ListTags(fs, seed, order)
        /\ UNCHANGED <<fs, outside, nwrites, agent>>

DoListYamlKeys ==
    \E seed \in HashSeeds, order \in WalkOrders :
        /\ op' = "list_yaml_keys"
        /\ arg' = [none |-> TRUE]
        /\ ret' = ListYamlKeys(fs, seed, order)
        /\ UNCHANGED <<fs, outside, nwrites, agent>>

Next ==
    \/ DoListFiles
    \/ DoReadFile
    \/ DoWriteFile
    \/ DoSearchContent
    \/ DoGetFileTree
    \/ DoListTags
    \/ DoListYamlKeys

Spec == Init /\ [][Next]_vars


----------------------------------------------------------------------------
(* A second specification: list_tags and list_yaml_keys over a vault of    *)
(* one note, whose content is a frontmatter block (or none) followed by a  *)
(* body put together from parts.                                           *)

\* "---\ntags: [alpha, beta]\n---\n"
FrontTags ==
    <<"-", "-", "-", "\n", "t", "a", "g", "s", ":", " ", "[", "a", "l", "p",
      "h", "a", ",", " ", "b", "e", "t", "a", "]", "\n", "-", "-", "-", "\n">>

\* "---\nstatus: done\naliases:\n- mytags\n---\n"
FrontAliases ==
    <<"-", "-", "-", "\n", "s", "t", "a", "t", "u", "s", ":", " ", "d", "o",
      "n", "e", "\n", "a", "l", "i", "a", "s", "e", "s", ":", "\n", "-", " ",
      "m", "y", "t", "a", "g", "s", "\n", "-", "-", "-", "\n">>

\* "---\ntags: [a]\naliases:\n- x\n---\n": an inline tags list, and a list under
\* another key
FrontTagsAliases ==
    <<"-", "-", "-", "\n", "t", "a", "g", "s", ":", " ", "[", "a", "]", "\n",
      "a", "l", "i", "a", "s", "e", "s", ":", "\n", "-", " ", "x", "\n", "-",
      "-", "-", "\n">>

\* "---\ntags:\n- a\n- b: c\n---\n": a block list under tags, whose second
\* item looks like a key: value pair
FrontBlock ==
    <<"-", "-", "-", "\n", "t", "a", "g", "s", ":", "\n", "-", " ", "a", "\n",
      "-", " ", "b", ":", " ", "c", "\n", "-", "-", "-", "\n">>

\* Frontmatter blocks that are not well formed.
FrontsMalformed ==
    {
     \* unterminated: "---\ntags: [a]\n"
     <<"-", "-", "-", "\n", "t", "a", "g", "s", ":", " ", "[", "a", "]",
       "\n">>,
     \* not at the very start: "\n---\ntags: [a]\n---\n"
     <<"\n", "-", "-", "-", "\n", "t", "a", "g", "s", ":", " ", "[", "a",
       "]", "\n", "-", "-", "-", "\n">>,
     \* an opening line that carries another character: "---x\ntags: [a]\n---\n"
     <<"-", "-", "-", "x", "\n", "t", "a", "g", "s", ":", " ", "[", "a",
       "]", "\n", "-", "-", "-", "\n">>,
     \* a closing line that carries another character: "---\ntags: [a]\n---x\n"
     <<"-", "-", "-", "\n", "t", "a", "g", "s", ":", " ", "[", "a", "]",
       "\n", "-", "-", "-", "x", "\n">>
    }

\* No frontmatter, "status: done" alone, a tags key, a list under another
\* key without and with a tags key, a block list under tags, and the
\* malformed blocks.
Fronts ==
    {<<>>, TextDone, FrontTags, FrontAliases, FrontTagsAliases, FrontBlock}
        \cup FrontsMalformed

\* "#gamma"
PartTag == <<"#", "g", "a", "m", "m", "a">>

\* "foo"
PartWord == <<"f", "o", "o">>

\* an inline code span around a tag-like token
PartSpan == <<Backtick, "#", "c", Backtick>>

\* a fenced code block around a tag-like token
PartFenced == Fence \o <<"\n", "#", "n", "o", "t", "t", "a", "g", "\n">> \o Fence

BodyParts == {PartTag, PartWord, <<" ">>, <<"\n">>, PartSpan, PartFenced, <<Backtick>>}

\* The largest number of parts in a body.
MaxBody == 2

\* The bodies of at most n parts.
RECURSIVE Bodies(_)
Bodies(n) ==
    IF n = 0 THEN {<<>>}
    ELSE LET shorter == Bodies(n - 1)
         IN  shorter \cup {body \o part : body \in shorter, part \in BodyParts}

\* The contents of the note: a front and a body, and the tag directly followed
\* by a code span and a word, "#gamma`#c`foo".
NoteContents ==
    {front \o body : front \in Fronts, body \in Bodies(MaxBody)}
        \cup {PartTag \o PartSpan \o PartWord}

rel_note_md == <<"n", "o", "t", "e", ".", "m", "d">> \* note.md

NoteVault(content) == (PathOf(rel_note_md) :> FileNode(content, TRUE, TRUE))

InitExtract ==
    /\ fs \in {NoteVault(content) : content \in NoteContents}
    /\ outside = OutsideVault
    /\ agent = NewAgent
    /\ op = "init"
    /\ arg = [none |-> TRUE]
    /\ ret = Returned(<<>>)
    /\ nwrites = 0

NextExtract ==
    \/ DoListTags
    \/ DoListYamlKeys

SpecExtract == InitExtract /\ [][NextExtract]_vars

----------------------------------------------------------------------------
(* A third specification: chat and reset_conversation of one VaultAgent.   *)
(* A chat is cut at its calls of the model: ChatBegin runs chat up to the  *)
(* first call, and the answer of the model (a final answer, tool calls, an *)
(* error) runs it on to the next call or to its end.                       *)

\* The tool calls an answer of the model may carry: each a list of calls with
\* the id, the function name and the arguments, a JSON text given as its
\* tokens.
ToolCallLists ==
    {
     \* one write that changes the tags of the vault
     <<
        \* write_file {"path": "t2.md", "content": "x here #Todo #todo"}
        [id |-> "c1", name |-> "write_file",
         arguments |-> <<<<"{">>, <<"\"", "p", "a", "t", "h", "\"">>, <<":">>,
                        <<"\"", "t", "2", ".", "m", "d", "\"">>, <<",">>,
                        <<"\"", "c", "o", "n", "t", "e", "n", "t", "\"">>, <<":">>,
                        <<"\"", "x", " ", "h", "e", "r", "e", " ", "#", "T", "o", "d", "o", " ", "#", "t", "o", "d", "o", "\"">>,
                        <<"}">>>>]
     >>,
     \* a read, and a tool that does not exist
     <<
        \* read_file {"path": "a.md"}
        [id |-> "c1", name |-> "read_file",
         arguments |-> <<<<"{">>, <<"\"", "p", "a", "t", "h", "\"">>, <<":">>,
                        <<"\"", "a", ".", "m", "d", "\"">>, <<"}">>>>],
        \* move_file {}
        [id |-> "c2", name |-> "move_file",
         arguments |-> <<<<"{">>, <<"}">>>>]
     >>,
     \* a call with arguments, and a call whose arguments are cut off
     <<
        \* list_tags {}
        [id |-> "c1", name |-> "list_tags",
         arguments |-> <<<<"{">>, <<"}">>>>],
        \* read_file {"path":
        [id |-> "c2", name |-> "read_file",
         arguments |-> <<<<"{">>, <<"\"", "p", "a", "t", "h", "\"">>, <<":">>>>]
     >>,
     \* tools that fail: a write below a regular file, and a read without a path
     <<
        \* write_file {"path": "a.md/x.md", "content": "x"}
        [id |-> "c1", name |-> "write_file",
         arguments |-> <<<<"{">>, <<"\"", "p", "a", "t", "h", "\"">>, <<":">>,
                        <<"\"", "a", ".", "m", "d", "/", "x", ".", "m", "d", "\"">>,
                        <<",">>, <<"\"", "c", "o", "n", "t", "e", "n", "t", "\"">>,
                        <<":">>, <<"\"", "x", "\"">>, <<"}">>>>],
        \* read_file {}
        [id |-> "c2", name |-> "read_file",
         arguments |-> <<<<"{">>, <<"}">>>>]
     >>,
     \* the other tools
     <<
        \* list_files {"pattern": "*.md"}
        [id |-> "c1", name |-> "list_files",
         arguments |-> <<<<"{">>, <<"\"", "p", "a", "t", "t", "e", "r", "n", "\"">>,
                        <<":">>, <<"\"", "*", ".", "m", "d", "\"">>, <<"}">>>>],
        \* search {"query": "x h", "case_sensitive": true}
        [id |-> "c2", name |-> "search",
         arguments |-> <<<<"{">>, <<"\"", "q", "u", "e", "r", "y", "\"">>, <<":">>,
                        <<"\"", "x", " ", "h", "\"">>, <<",">>,
                        <<"\"", "c", "a", "s", "e", "_", "s", "e", "n", "s", "i", "t", "i", "v", "e", "\"">>,
                        <<":">>, <<"t", "r", "u", "e">>, <<"}">>>>],
        \* tree {"max_depth": 1}
        [id |-> "c3", name |-> "tree",
         arguments |-> <<<<"{">>,
                        <<"\"", "m", "a", "x", "_", "d", "e", "p", "t", "h", "\"">>,
                        <<":">>, <<"1">>, <<"}">>>>],
        \* list_yaml_keys {}
        [id |-> "c4", name |-> "list_yaml_keys",
         arguments |-> <<<<"{">>, <<"}">>>>]
     >>
    }

\* The number of calls of the model in one run of the model.
MaxCalls == 4

InitAgent ==
    /\ fs = VaultScenario
    /\ outside = OutsideVault
    /\ op = "init"
    /\ arg = [none |-> TRUE]
    /\ ret = Returned(<<>>)
    /\ nwrites = 0
    /\ agent = NewAgent

\* chat(user_message), up to its first call of the model: the user message
\* goes into the history, the index is built if there is none, and messages
\* is put together.
ChatBegin ==
    \E user_message \in {<<"h", "i">>}, seed \in HashSeeds, order \in WalkOrders :
        /\ agent.pc = "idle"
        /\ agent.calls < MaxCalls
        /\ LET history == Append(agent.conversation_history,
                                 Message("user", user_message, <<>>, ""))
               build == IndexMissing(agent.vault_index)
               Sends(index) ==
                   agent' = [agent EXCEPT
                                !.conversation_history = history,
                                !.vault_index = index,
                                !.messages = <<Message("system", SYSTEM_PROMPT, <<>>, ""),
                                               Message("system", index, <<>>, "")>> \o history,
                                !.pc = "model",
                                !.builds = IF build THEN @ + 1 ELSE @]
           IN  Sends(IF build THEN BuildVaultIndex(fs, seed, order) ELSE agent.vault_index)
        /\ op' = "chat"
        /\ arg' = [user_message |-> user_message]
        /\ UNCHANGED <<fs, outside, ret, nwrites>>

\* The model answers without tool calls: the answer goes into the history
\* and chat returns its content.
ModelAnswers ==
    \E content \in {<<"o", "k">>} :
        /\ agent.pc = "model"
        /\ agent' = [agent EXCEPT
                        !.conversation_history =
                            Append(@, Message("assistant", content, <<>>, "")),
                        !.messages = <<>>,
                        !.pc = "idle",
                        !.calls = @ + 1]
        /\ ret' = Returned(content)
        /\ UNCHANGED <<fs, outside, op, arg, nwrites>>

\* The model answers with tool calls: the answer goes into the history, the
\* calls are run in their order, and chat calls the model again; or the
\* arguments of a call are no JSON, and chat ends with that error.
ModelCallsTools ==
    \E tool_calls \in ToolCallLists, seed \in HashSeeds, order \in WalkOrders :
        LET writes == Cardinality({i \in 1..Len(tool_calls) : tool_calls[i].name = "write_file"})
            assistant_message == Message("assistant", <<>>, tool_calls, "")
            Ends(end) ==
                /\ agent' = [agent EXCEPT
                                !.conversation_history = end.conversation_history,
                                !.messages = IF end.raised THEN <<>> ELSE end.messages,
                                !.pc = IF end.raised THEN "idle" ELSE "model",
                                !.calls = @ + 1]
                /\ fs' = end.fs
                /\ outside' = end.outside
                /\ ret' = IF end.raised THEN Raised("JSONDecodeError") ELSE ret
        IN  /\ agent.pc = "model"
            /\ agent.calls + 1 < MaxCalls
            /\ nwrites + writes <= MaxWrites
            /\ Ends(ToolLoop([conversation_history |->
                                  Append(agent.conversation_history, assistant_message),
                              messages |-> Append(agent.messages, assistant_message),
                              fs |-> fs, outside |-> outside, raised |-> FALSE],
                             tool_calls, 1, seed, order))
            /\ nwrites' = nwrites + writes
            /\ UNCHANGED <<op, arg>>

\* client.chat.completions.create raises: the error leaves chat.
ModelCallFails ==
    /\ agent.pc = "model"
    /\ agent' = [agent EXCEPT !.messages = <<>>, !.pc = "idle", !.calls = @ + 1]
    /\ ret' = Raised("APIError")
    /\ UNCHANGED <<fs, outside, op, arg, nwrites>>

\* reset_conversation()
ResetConversation ==
    /\ agent.pc = "idle"
    /\ agent' = [agent EXCEPT !.conversation_history = <<>>, !.vault_index = None, !.builds = 0]
    /\ op' = "reset_conversation"
    /\ arg' = [none |-> TRUE]
    /\ ret' = Returned(<<>>)
    /\ UNCHANGED <<fs, outside, nwrites>>

NextAgent ==
    \/ ChatBegin
    \/ ModelAnswers
    \/ ModelCallsTools
    \/ ModelCallFails
    \/ ResetConversation

SpecAgent == InitAgent /\ [][NextAgent]_vars

----------------------------------------------------------------------------
(* The properties.                                                         *)

\* C1: every file that list_files returns, under any pattern, has the
\* extension .md or .markdown in any letter case, and no segment of its
\* relative path is .obsidian, .git, .trash or node_modules; and list_files
\* without a pattern returns every readable markdown file that has no such
\* segment.
C1_ListFilesFilter ==
    op = "list_files" =>
        LET Markdown(name) ==
                Lower(Suffix(name)) \in {<<".", "m", "d">>,
                                         <<".", "m", "a", "r", "k", "d", "o", "w", "n">>}
            Ignored == {<<".", "o", "b", "s", "i", "d", "i", "a", "n">>,
                        <<".", "g", "i", "t">>,
                        <<".", "t", "r", "a", "s", "h">>,
                        <<"n", "o", "d", "e", "_", "m", "o", "d", "u", "l", "e", "s">>}
            Segments(rel) == Split(rel, "/")
            returned == {ret.value[i].relative_path : i \in 1..Len(ret.value)}
        IN  /\ ~ret.raised
            /\ \A rel \in returned :
                  /\ Markdown(Segments(rel)[Len(Segments(rel))])
                  /\ \A k \in 1..Len(Segments(rel)) : Segments(rel)[k] \notin Ignored
            /\ arg.pattern = <<>> =>
                  \A path \in DOMAIN fs :
                      (/\ fs[path].kind = "file"
                       /\ ReadTextOk(fs[path])
                       /\ Markdown(path[Len(path)])
                       /\ \A k \in 1..Len(path) : path[k] \notin Ignored)
                      => RelativeStr(path) \in returned

\* list_files without a pattern has returned N.MD and x.markdown from a vault
\* that also holds a .txt file and a markdown file under node_modules.
C1_Witness ==
    /\ op = "list_files"
    /\ arg.pattern = <<>>
    /\ ~ret.raised
    /\ \E i, j \in 1..Len(ret.value) :
          /\ ret.value[i].relative_path = rel_N_MD
          /\ ret.value[j].relative_path = rel_x_markdown
    /\ PathOf(rel_t_txt) \in DOMAIN fs
    /\ PathOf(rel_node_modules_m_md) \in DOMAIN fs

\* C2: for a path p and a content c that the filesystem lets write_file
\* write, write_file(p, c) returns True, the parents of p exist afterwards,
\* and read_file(p) then returns a VaultFile whose content is exactly c,
\* whatever the vault held at p before.
C2_WriteThenReadGivesContent ==
    [][(/\ op' = "write_file"
        /\ ~MkdirRaises(fs @@ outside, PathOf(arg'.path))
        /\ WriteText(AfterMkdir(fs @@ outside, PathOf(arg'.path)),
                     PathOf(arg'.path), arg'.content).ok)
       => /\ ret' = Returned(TRUE)
          /\ \A a \in Ancestors(PathOf(arg'.path)) : IsDir(fs' @@ outside', a)
          /\ ReadFile(fs' @@ outside', arg'.path) =
                 Returned(<<VaultFile(PathOf(arg'.path), arg'.path, arg'.content)>>)]_vars

\* C3: write_file never lets an exception out: whatever fails, the creation
\* of the parent directories or the write, the caller gets a boolean.
C3_WriteFileNeverRaises ==
    op = "write_file" => ~ret.raised /\ ret.value \in BOOLEAN

\* C4: the tags list_tags attributes to a file are exactly its frontmatter
\* tags and its inline tags.  So every tag attributed to a file is a
\* frontmatter tag of it, or stands in its content behind a "#" that is at
\* the very start or right after whitespace ("foo#bar" gives no tag); no
\* token of a fenced code block is attributed; and the file with frontmatter
\* tags: [alpha, beta] and "#gamma" outside code gets alpha, beta and gamma.
C4_TagsOfAFile ==
    op = "list_tags" =>
        /\ ~ret.raised
        /\ \A path \in DOMAIN fs :
              (fs[path].kind = "file" /\ ReadTextOk(fs[path]) /\ Selected(fs, <<>>, path)) =>
                  LET content == ReadText(fs[path])
                      attributed ==
                          {ret.value[i].key :
                              i \in {k \in 1..Len(ret.value) :
                                        RelativeStr(path) \in Range(ret.value[k].files)}}
                      AfterSpace(i) == i = 1 \/ IsSpace(content[i - 1])
                  IN  /\ FrontmatterTags(content) \subseteq attributed
                      /\ \A tag \in attributed \ FrontmatterTags(content) :
                            \E i \in 1..Len(content) :
                                MatchAt(content, i, <<"#">> \o tag) /\ AfterSpace(i)
                      /\ \A i \in 1..Len(content) :
                            (/\ MatchAt(content, i, PartTag)
                             /\ AfterSpace(i)
                             /\ Backtick \notin Range(content)
                             /\ (i + Len(PartTag) > Len(content)
                                    \/ ~IsTagChar(content[i + Len(PartTag)])))
                            => Tail(PartTag) \in attributed
                      /\ (Contains(content, PartFenced) /\ ~Contains(content, PartTag))
                            => \A tag \in attributed : tag \in FrontmatterTags(content)
                      /\ content = TextTagged =>
                            attributed = {<<"a", "l", "p", "h", "a">>,
                                          <<"b", "e", "t", "a">>,
                                          <<"g", "a", "m", "m", "a">>}

\* C5: a file whose frontmatter block defines status: done and has no tags
\* key (and whose content holds no inline tag) appears in no entry of the tag
\* index, and the index of list_yaml_keys maps the key status to a list that
\* holds the file's relative path.
C5_StatusDoneNotTagged ==
    \A path \in DOMAIN fs :
        LET content == ReadText(fs[path])
            block == FrontmatterMatch(content)
            lines == Split(block[1], "\n")
            StatusDoneNoTags ==
                /\ block # <<>>
                /\ \E i \in 1..Len(lines) :
                      lines[i] = <<"s", "t", "a", "t", "u", "s", ":", " ", "d", "o", "n", "e">>
                /\ \A i \in 1..Len(lines) :
                      ~StartsWith(Strip(lines[i]), <<"t", "a", "g", "s", ":">>)
            Listed == \E i \in 1..Len(ret.value) :
                          RelativeStr(path) \in Range(ret.value[i].files)
            UnderStatus == \E i \in 1..Len(ret.value) :
                               /\ ret.value[i].key = <<"s", "t", "a", "t", "u", "s">>
                               /\ RelativeStr(path) \in Range(ret.value[i].files)
        IN  (/\ fs[path].kind = "file"
             /\ ReadTextOk(fs[path])
             /\ Selected(fs, <<>>, path)
             /\ StatusDoneNoTags
             /\ InlineTags(content) = {})
            => /\ op = "list_tags" => ~ret.raised /\ ~Listed
               /\ op = "list_yaml_keys" => ~ret.raised /\ UnderStatus

\* C6: the result of list_tags is in ascending order of tag name compared
\* without regard to letter case, no tag has two entries, and no file list
\* holds a relative path more than once, however often and from however many
\* sources the tag occurs in the file.
C6_TagsSortedNoDuplicates ==
    op = "list_tags" =>
        /\ ~ret.raised
        /\ \A i, j \in 1..Len(ret.value) :
              i < j => /\ ~StrLess(Lower(ret.value[j].key), Lower(ret.value[i].key))
                       /\ ret.value[i].key # ret.value[j].key
        /\ \A i \in 1..Len(ret.value) :
              \A a, b \in 1..Len(ret.value[i].files) :
                  a # b => ret.value[i].files[a] # ret.value[i].files[b]

\* list_tags has indexed a vault in which one file has alpha in its
\* frontmatter and inline and #gamma twice, and another file has alpha too.
C6_Witness ==
    /\ op = "list_tags"
    /\ ~ret.raised
    /\ PathOf(rel_t1_md) \in DOMAIN fs
    /\ fs[PathOf(rel_t1_md)].data = TextTagged
    /\ Len(ret.value) >= 3
    /\ \E i \in 1..Len(ret.value) :
          /\ ret.value[i].key = <<"a", "l", "p", "h", "a">>
          /\ ret.value[i].files = <<rel_t1_md, rel_t2_md>>

\* C7: list_files returns its files in strictly ascending order of relative
\* path (so none twice), and a list_files call that follows a list_files
\* call with the same pattern, the vault unchanged in between, returns the
\* same list: the same paths with the same contents in the same order.
C7_ListFilesSortedAndRepeatable ==
    /\ [](op = "list_files" =>
            /\ ~ret.raised
            /\ \A i, j \in 1..Len(ret.value) :
                  i < j => StrLess(ret.value[i].relative_path, ret.value[j].relative_path))
    /\ [][(/\ op = "list_files"
           /\ op' = "list_files"
           /\ arg'.pattern = arg.pattern
           /\ fs' = fs)
          => ret' = ret]_vars

\* list_files has returned three files or more under the pattern *.md or
\* without one.
C7_Witness ==
    /\ op = "list_files"
    /\ ~ret.raised
    /\ Len(ret.value) >= 3

\* C8: search_content returns exactly the files of list_files() whose content
\* holds the query as a literal substring, in the order of list_files(),
\* letter case counting only when case_sensitive is true: the query "X"
\* finds the file with "X" and, unless case_sensitive, the file with "x".
C8_SearchIsSubstringFilter ==
    op = "search_content" =>
        LET listing == ListFiles(fs, <<>>, "ascending").value
            Fold(c) == IF arg.case_sensitive THEN c ELSE LowerChar(c)
            Holds(content) ==
                \E k \in 0..(Len(content) - Len(arg.query)) :
                    \A j \in 1..Len(arg.query) : Fold(content[k + j]) = Fold(arg.query[j])
            wanted == {i \in 1..Len(listing) : Holds(listing[i].content)}
            found == {ret.value[r].relative_path : r \in 1..Len(ret.value)}
        IN  /\ ~ret.raised
            /\ Len(ret.value) = Cardinality(wanted)
            /\ \A r \in 1..Len(ret.value) :
                  \E i \in wanted :
                      /\ ret.value[r] = listing[i]
                      /\ Cardinality({k \in wanted : k <= i}) = r
            /\ (/\ arg.query = <<"X">>
                /\ PathOf(rel_N_MD) \in DOMAIN fs
                /\ fs[PathOf(rel_N_MD)].data = TextUpper
                /\ fs[PathOf(rel_x_markdown)].data = TextLower)
               => /\ rel_N_MD \in found
                  /\ rel_x_markdown \in found <=> ~arg.case_sensitive

\* search_content("X", case_sensitive=False) has found both the file with
\* "X" and the file with "x".
C8_Witness ==
    /\ op = "search_content"
    /\ arg.query = <<"X">>
    /\ ~arg.case_sensitive
    /\ ~ret.raised
    /\ \E i, j \in 1..Len(ret.value) :
          /\ ret.value[i].content = TextUpper
          /\ ret.value[j].content = TextLower

\* C9: get_file_tree(max_depth) renders no entry that lies more than
\* max_depth levels below the root: the lines after the root's are exactly
\* the entries at most max_depth levels down that the filter shows and whose
\* ancestors it shows, one line each and no line besides; with max_depth = 1
\* these are direct children of the root only.
C9_TreeDepthLimit ==
    op = "get_file_tree" =>
        LET lines == ret.value
            Level(line) == Len(line.prefix) + 1
            visible == {path \in DOMAIN fs :
                           /\ Len(path) <= arg.max_depth
                           /\ \A n \in 1..Len(path) : TreeShown(fs, SubSeq(path, 1, n))}
        IN  /\ ~ret.raised
            /\ \A i \in 2..Len(lines) : Level(lines[i]) <= arg.max_depth
            /\ Len(lines) = 1 + Cardinality(visible)
            /\ \A path \in visible :
                  \E i \in 2..Len(lines) :
                      lines[i].name = BaseName(path) /\ Level(lines[i]) = Len(path)
            /\ arg.max_depth = 1 =>
                  \A i \in 2..Len(lines) :
                      /\ lines[i].prefix = <<>>
                      /\ <<lines[i].name>> \in DOMAIN fs

\* get_file_tree(1) has rendered the children of the root of a vault that
\* holds a markdown file two levels down in a directory that is shown.
C9_Witness ==
    /\ op = "get_file_tree"
    /\ arg.max_depth = 1
    /\ ~ret.raised
    /\ Len(ret.value) > 1
    /\ \E path \in DOMAIN fs :
          /\ Len(path) = 2
          /\ \A n \in 1..2 : TreeShown(fs, SubSeq(path, 1, n))

C11_ListItemsUnderTagsOnly ==
    op = "list_tags" =>
        /\ ~ret.raised
        /\ \A path \in DOMAIN fs :
              (/\ fs[path].kind = "file"
               /\ ReadTextOk(fs[path])
               /\ Selected(fs, <<>>, path)
               /\ FrontmatterMatch(ReadText(fs[path])) # <<>>) =>
                  LET content == ReadText(fs[path])
                      block == FrontmatterMatch(content)[1]
                      lines == Split(block, "\n")
                      IsTagsKey(i) == StartsWith(Strip(lines[i]), <<"t", "a", "g", "s", ":">>)
                      IsItem(i) == StartsWith(Strip(lines[i]), <<"-", " ">>)
                      Item(i) == StripChars(Strip(Slice(Strip(lines[i]), 3, Len(Strip(lines[i])))),
                                            {"\"", "'"})
                      UnderTags(i) ==
                          \E j \in 1..(i - 1) :
                              IsTagsKey(j) /\ \A k \in (j + 1)..(i - 1) : IsItem(k)
                      Proper(i) == IsItem(i) /\ UnderTags(i) /\ ":" \notin Range(Item(i))
                      Others(i) ==
                          InlineTags(content)
                          \cup UNION {LineTags(block, lines[k]) :
                                         k \in {n \in 1..Len(lines) : IsTagsKey(n)}}
                          \cup {Item(k) : k \in {n \in 1..Len(lines) : n # i /\ Proper(n)}}
                      attributed ==
                          {ret.value[i].key :
                              i \in {k \in 1..Len(ret.value) :
                                        RelativeStr(path) \in Range(ret.value[k].files)}}
                  IN  \A i \in 1..Len(lines) :
                          (IsItem(i) /\ Item(i) \in attributed /\ Item(i) \notin Others(i))
                              => Proper(i)

\* C12: no "#token" inside code is counted as a tag by list_tags, and the
\* stripping of code removes no tag that lies outside code.  For every file:
\* a token that lies inside a fenced block (between the first fence of the
\* content and the next one) or inside an inline span (between the first
\* backtick of the content and the next one, each a single backtick) is not
\* in the tag set of the file, unless the same tag also occurs elsewhere or
\* in the frontmatter; and a token that stands at the start or after
\* whitespace and has no backtick before it, or none after it, is in the tag
\* set of the file.
C12_NoTagFromCode ==
    op = "list_tags" =>
        /\ ~ret.raised
        /\ \A path \in DOMAIN fs :
              (fs[path].kind = "file" /\ ReadTextOk(fs[path]) /\ Selected(fs, <<>>, path)) =>
                  LET content == ReadText(fs[path])
                      n == Len(content)
                      attributed ==
                          {ret.value[i].key :
                              i \in {k \in 1..Len(ret.value) :
                                        RelativeStr(path) \in Range(ret.value[k].files)}}
                      Tokens == {i \in 1..(n - 1) : content[i] = "#" /\ IsLetter(content[i + 1])}
                      End(i) == TagEnd(content, i + 1)
                      TagAt(i) == Slice(content, i + 1, End(i))
                      first == FindFrom(content, 1, <<Backtick>>)
                      InSpan(i) ==
                          /\ first # 0
                          /\ LET closing == FindFrom(content, first + 1, <<Backtick>>)
                             IN  /\ closing > first + 1
                                 /\ closing = n \/ content[closing + 1] # Backtick
                                 /\ first < i
                                 /\ End(i) < closing
                      InFence(i) ==
                          /\ first # 0
                          /\ MatchAt(content, first, Fence)
                          /\ LET closing == FindFrom(content, first + 3, Fence)
                             IN  closing # 0 /\ first + 3 <= i /\ End(i) < closing
                      InCode(i) == InSpan(i) \/ InFence(i)
                      OutsideCode(i) ==
                          \/ \A k \in 1..(i - 1) : content[k] # Backtick
                          \/ \A k \in (End(i) + 1)..n : content[k] # Backtick
                  IN  /\ \A i \in Tokens :
                            (/\ InCode(i)
                             /\ \A k \in Tokens : TagAt(k) = TagAt(i) => InCode(k)
                             /\ TagAt(i) \notin FrontmatterTags(content))
                            => TagAt(i) \notin attributed
                      /\ \A i \in Tokens :
                            (OutsideCode(i) /\ (i = 1 \/ IsSpace(content[i - 1])))
                                => TagAt(i) \in attributed

\* C13: frontmatter tags are taken from a file only when its content begins
\* with a line that is exactly "---" and a later line that is exactly "---"
\* closes the block.  A file whose block is unterminated, does not start at
\* the very first character, or whose delimiter lines carry other characters
\* gets no tag but its inline tags, and list_tags raises nothing.
C13_FrontmatterOnlyWellFormed ==
    op = "list_tags" =>
        /\ ~ret.raised
        /\ \A path \in DOMAIN fs :
              (fs[path].kind = "file" /\ ReadTextOk(fs[path]) /\ Selected(fs, <<>>, path)) =>
                  LET content == ReadText(fs[path])
                      lines == Split(content, "\n")
                      WellFormed ==
                          /\ lines[1] = <<"-", "-", "-">>
                          /\ \E j \in 2..Len(lines) : lines[j] = <<"-", "-", "-">>
                      attributed ==
                          {ret.value[i].key :
                              i \in {k \in 1..Len(ret.value) :
                                        RelativeStr(path) \in Range(ret.value[k].files)}}
                  IN  ~WellFormed => attributed \subseteq InlineTags(content)

\* C15: the ordered result of list_tags is a function of the content of the
\* vault alone.  Two runs of list_tags over the same unchanged vault return
\* the same tags in the same order, with the same file lists in the same
\* order, also when a file carries tags that differ only in letter case; and
\* the file list of every tag is in ascending order of relative path.
C15_ListTagsFunctionOfVault ==
    /\ [](op = "list_tags" =>
             /\ ~ret.raised
             /\ \A i \in 1..Len(ret.value) :
                   \A a, b \in 1..Len(ret.value[i].files) :
                       a < b => StrLess(ret.value[i].files[a], ret.value[i].files[b]))
    /\ [][(op = "list_tags" /\ op' = "list_tags" /\ fs' = fs) => ret' = ret]_vars

\* C16: every VaultFile that list_files or read_file produces, and every file
\* that write_file writes, lies strictly inside the vault root, whatever
\* relative path the caller gives, paths with ".." segments and absolute
\* paths included.  So the path of a VaultFile returned does not start at the
\* root of the filesystem and has no ".." segment, and a call of write_file
\* leaves what lies outside the vault as it was.
C16_StrictlyInsideVault ==
    /\ [](LET Inside(path) ==
                  /\ path # <<>>
                  /\ path[1] # <<"/">>
                  /\ \A i \in 1..Len(path) : path[i] # <<".", ".">>
          IN  /\ op = "list_files" =>
                    \A i \in 1..Len(ret.value) :
                        /\ Inside(ret.value[i].path)
                        /\ ret.value[i].path \in DOMAIN fs
                        /\ Inside(Split(ret.value[i].relative_path, "/"))
              /\ (op = "read_file" /\ ret.value # <<>>) =>
                    /\ Inside(ret.value[1].path)
                    /\ ret.value[1].path \in DOMAIN fs)
    /\ [][op' = "write_file" => outside' = outside]_vars

\* C14: over any sequence of chat and reset_conversation calls on one agent,
\* the vault index is built exactly once per conversation.  The first chat
\* after the construction or after a reset builds it from the vault as it is
\* then and stores it; every call of the model in that conversation sends the
\* stored summary as the second system message; nothing but a reset changes
\* the stored summary, also when write_file has changed the vault; and
\* reset_conversation clears the history and the stored index.
C14_IndexBuiltOncePerConversation ==
    /\ [](/\ agent.builds <= 1
          /\ agent.conversation_history # <<>> =>
                 agent.builds = 1 /\ agent.vault_index # <<>>
          /\ agent.conversation_history = <<>> =>
                 agent.builds = 0 /\ agent.vault_index = <<>>
          /\ agent.pc = "model" =>
                 /\ agent.messages[2].role = "system"
                 /\ agent.messages[2].content = agent.vault_index)
    /\ [][/\ (agent.pc = "idle" /\ agent'.pc = "model" /\ agent.vault_index = <<>>) =>
                 \E seed \in {"s0", "s1"}, order \in {"ascending", "descending"} :
                     agent'.vault_index = BuildVaultIndex(fs, seed, order)
          /\ (agent.vault_index # <<>> /\ ~(agent.pc = "idle" /\ agent'.pc = "idle")) =>
                 agent'.vault_index = agent.vault_index
          /\ (agent.pc = "idle" /\ agent'.pc = "idle") =>
                 /\ agent'.conversation_history = <<>>
                 /\ agent'.vault_index = <<>>
                 /\ agent'.builds = 0]_vars

\* The second chat of a conversation has just begun and waits for the model
\* with the stored summary in its messages, after a tool call of the first
\* chat has changed the vault so that a new scan would give another summary.
C14_Witness ==
    /\ agent.pc = "model"
    /\ agent.conversation_history[Len(agent.conversation_history)].role = "user"
    /\ Cardinality({i \in 1..Len(agent.conversation_history) :
                       agent.conversation_history[i].role = "user"}) = 2
    /\ agent.builds = 1
    /\ agent.messages[2].content = agent.vault_index
    /\ \A seed \in {"s0", "s1"} :
          BuildVaultIndex(fs, seed, "ascending") # agent.vault_index

\* C17: whenever chat has returned or raised, every assistant message of the
\* history that carries tool calls is directly followed by one tool message
\* per call, in the order of the calls and with the tool_call_id of the call,
\* and by no further tool message; so no later chat sends a history with an
\* unanswered tool call.
C17_ToolCallsAnswered ==
    agent.pc = "idle" =>
        LET history == agent.conversation_history
        IN  \A i \in 1..Len(history) :
                (history[i].role = "assistant" /\ history[i].tool_calls # <<>>) =>
                    LET n == Len(history[i].tool_calls)
                    IN  /\ i + n <= Len(history)
                        /\ \A k \in 1..n :
                              /\ history[i + k].role = "tool"
                              /\ history[i + k].tool_call_id = history[i].tool_calls[k].id
                        /\ i + n < Len(history) => history[i + n + 1].role # "tool"

============================================================================
